---- MODULE Spec2Model ----
(***************************************************************************)
(* Model of the AWP wallpaper rotation daemon: the Workspace model, the   *)
(* rotation state store (indexes.json), and the scheduler loop, in its    *)
(* two shipped variants (awp_daemon.py and daemon.py + core/actions.py).  *)
(* Time is counted in half seconds (the polling sleep of awp_daemon.py).  *)
(***************************************************************************)
EXTENDS Integers, Sequences, FiniteSets, TLC

\* ------------------------------------------------------------------ bounds
NumWS == 2        \* configured workspaces (general/workspaces)
MaxStored == 5    \* largest index a state file is started with
MaxNegStored == 2 \* the most negative index a state file is started with is -2
MaxFiles == 3     \* candidate files that may exist in a folder
MaxTime == 4      \* the clock stops advancing here (half seconds)
MaxTimingLen == 3 \* longest timing string handed to parse_timing

\* ------------------------------------------------------- program constants
UnitsPerSecond == 2      \* clock units per second
DefaultTiming == 60      \* "or 60" / "return 60" fallback, in seconds
PollSleepAwp == 1        \* time.sleep(0.5) of awp_daemon.py
BackoffSleepAwp == 2     \* time.sleep(1) in the except branch
PollSleepDaemon == 4     \* time.sleep(2) of daemon.py
NoWS == -1               \* last_ws = None
NoCall == <<>>
NoNav == [cmd |-> "none", ws_num |-> NoWS, len_imgs |-> 0]

Variants == {"awp_daemon", "daemon"}
WsNums == 0 .. (NumWS - 1)
Files == 1 .. MaxFiles

\* ------------------------------------------------------------ file system
\* A directory entry is identified by a number; its name, its extension and
\* its modification time are fixed functions of the number. The candidate
\* files 1, 2, 3, ... are named 1.jpg, 2.png, 3.jpg, ...; the other entries are
\* 0.jpeg, 1.JPG, 2.PnG and 3.txt.
OtherEntries == {0, -1, -2, -3}
Entries == Files \cup OtherEntries

ExtOf(e) ==
    IF e \in Files THEN (IF e % 2 = 1 THEN "jpg" ELSE "png")
    ELSE IF e = 0 THEN "jpeg"
    ELSE IF e = -1 THEN "JPG"
    ELSE IF e = -2 THEN "PnG"
    ELSE "txt"

\* str.lower() on the extensions above
Lower(ext) ==
    IF ext = "JPG" THEN "jpg" ELSE IF ext = "PnG" THEN "png"
    ELSE IF ext = "H" THEN "h" ELSE ext

\* f.name.lower(): entries 1.jpg and 1.JPG, 2.png and 2.PnG fold to one name
NameKey == [f \in Entries |-> IF f \in Files THEN f ELSE 0 - f]
MTimeKey == [f \in Entries |-> (f * 2) % 5]
NegKey(k) == [f \in DOMAIN k |-> 0 - k[f]]

\* the patterns *.[jJ][pP][gG] and *.[pP][nN][gG]
IsJpg(f) == ExtOf(f) \in {"jpg", "JPG"}
IsPng(f) == ExtOf(f) \in {"png", "PnG"}

RECURSIVE SetToSeq(_)
SetToSeq(S) ==
    IF S = {} THEN <<>>
    ELSE LET m == CHOOSE x \in S : \A y \in S : x <= y
         IN <<m>> \o SetToSeq(S \ {m})

\* load_images on a directory holding the entries dir: the *.jpg matches
\* followed by the *.png matches
load_images(dir) ==
    SetToSeq({f \in dir : IsJpg(f)}) \o SetToSeq({f \in dir : IsPng(f)})

\* a folder path: nothing there, something that is not a directory, or a
\* directory with its direct entries
Missing == [exists |-> FALSE, is_dir |-> FALSE, entries |-> {}]
NotADirectory == [exists |-> TRUE, is_dir |-> FALSE, entries |-> {}]
Directory(S) == [exists |-> TRUE, is_dir |-> TRUE, entries |-> S]

\* load_images(folder_path), with its is_dir() test
LoadImagesAt(folder) ==
    IF ~folder.is_dir THEN <<>> ELSE load_images(folder.entries)

NoArgs ==
    [fn |-> "none", folder |-> Missing, images |-> <<>>, order_key |-> "none",
     timing_str |-> <<>>]

\* Python's sorted(): stable, ascending by key
RECURSIVE SortedBy(_, _)
SortedBy(s, key) ==
    IF s = <<>> THEN <<>>
    ELSE LET i == CHOOSE i \in 1 .. Len(s) :
                    /\ \A j \in 1 .. Len(s) : key[s[i]] <= key[s[j]]
                    /\ \A j \in 1 .. (i - 1) : key[s[j]] > key[s[i]]
         IN <<s[i]>> \o SortedBy(SubSeq(s, 1, i - 1) \o SubSeq(s, i + 1, Len(s)), key)

\* sorted(..., reverse=True): stable, descending by key
SortedByReverse(s, key) == SortedBy(s, NegKey(key))

sort_images(images, order_key) ==
    IF order_key = "name_az" THEN SortedBy(images, NameKey)
    ELSE IF order_key = "name_za" THEN SortedByReverse(images, NameKey)
    ELSE IF order_key = "name_new" THEN SortedByReverse(images, MTimeKey)
    ELSE IF order_key = "name_old" THEN SortedBy(images, MTimeKey)
    ELSE images

\* sort_images calls stat() only for the two modification-time orders
SortStats(order_key) == order_key \in {"name_new", "name_old"}

\* ------------------------------------------------------------ timing
\* A timing string is its integer part and its unit character.
TimingStr(n, u) == [number |-> n, unit |-> u]

\* units.get(unit) without the default of 60
UnitSeconds_NoDefault(u) ==
    IF u = "s" THEN 1 ELSE IF u = "m" THEN 60 ELSE IF u = "h" THEN 3600 ELSE 1

UnitSeconds(u) ==
    IF u = "s" THEN 1 ELSE IF u = "m" THEN 60 ELSE IF u = "h" THEN 3600 ELSE 60

\* parse_timing of a well-formed string, in seconds
parse_timing(t) == t.number * UnitSeconds(t.unit)

\* self.timing = parse_timing(self.timing_str) or 60, in clock units
TimingOf(t) ==
    (IF parse_timing(t) = 0 THEN DefaultTiming ELSE parse_timing(t)) * UnitsPerSecond

\* A timing string as its characters; the ones tried are made of these.
TimingChars == {"0", "1", "2", "-", "s", "m", "h", "H", "x"}
TimingStrings == UNION { [1 .. n -> TimingChars] : n \in 0 .. MaxTimingLen }

\* int(text): an optional sign and at least one digit, else ValueError
PyInt(text) ==
    LET DigitVal == [c \in {"0", "1", "2"} |-> IF c = "0" THEN 0 ELSE IF c = "1" THEN 1 ELSE 2]
        neg == text # <<>> /\ Head(text) = "-"
        digits == IF neg THEN Tail(text) ELSE text
        val[k \in 0 .. Len(digits)] ==
            IF k = 0 THEN 0 ELSE val[k - 1] * 10 + DigitVal[digits[k]]
    IN IF digits = <<>> \/ \E k \in 1 .. Len(digits) : digits[k] \notin DOMAIN DigitVal
       THEN [ok |-> FALSE, value |-> 0]
       ELSE [ok |-> TRUE, value |-> IF neg THEN 0 - val[Len(digits)] ELSE val[Len(digits)]]

\* parse_timing(timing_str) on the characters of the string: ok is FALSE where
\* the code returns None (timing_str[-1] or int() raised)
ParseTimingStr(s) ==
    IF s = <<>> THEN [ok |-> FALSE, value |-> 0]
    ELSE LET unit == Lower(s[Len(s)])
             number == PyInt(SubSeq(s, 1, Len(s) - 1))
         IN IF ~number.ok THEN number
            ELSE [ok |-> TRUE, value |-> parse_timing(TimingStr(number.value, unit))]

\* self.timing = parse_timing(self.timing_str) or 60, in seconds
SelfTiming(s) ==
    LET r == ParseTimingStr(s)
    IN IF ~r.ok \/ r.value = 0 THEN DefaultTiming ELSE r.value

\* the workspace sections the configuration may hold
CfgChoices ==
    << [timing |-> TimingStr(2, "s"), mode |-> "random", order |-> "name_az"],
       [timing |-> TimingStr(1, "s"), mode |-> "sequential", order |-> "name_new"],
       [timing |-> TimingStr(1, "s"), mode |-> "sequential", order |-> "name_az"] >>

\* the configurations the daemon is started with: workspace w holds section
\* (w + k) of the list above
Configs ==
    { [w \in WsNums |-> CfgChoices[((w + k) % Len(CfgChoices)) + 1]] :
        k \in 1 .. Len(CfgChoices) }

\* the contents a wallpaper folder is found with: its first k candidate files
Folders == { 1 .. k : k \in 0 .. MaxFiles }

\* ------------------------------------------------------------ state store
get_ws_key(ws_num) == [n |-> ws_num + 1, suffix |-> ""]
LastKey(ws_num) == [n |-> ws_num + 1, suffix |-> "_last"]

EmptyMap == [k \in {} |-> 0]
Absent == [kind |-> "absent", doc |-> EmptyMap]
Empty == [kind |-> "empty", doc |-> EmptyMap]
Partial == [kind |-> "partial", doc |-> EmptyMap]
Doc(m) == [kind |-> "doc", doc |-> m]

\* what json.load returns for a document that is valid JSON but not an object
\* (an array, a number, a string, null): a value without a get method, written
\* here as a map under a key that no workspace has
JsonArray == [k \in {[n |-> 0, suffix |-> "[]"]} |-> 0]
IsObject(v) == v # JsonArray

\* load_state: {} when the file is absent or does not parse
load_state(file) == IF file.kind = "doc" THEN file.doc ELSE EmptyMap

\* state.get(key, default)
DictGet(m, k, default) == IF k \in DOMAIN m THEN m[k] ELSE default

\* a new dict holding the one key
DictSet_Fresh(m, k, v) == [x \in {k} |-> v]

\* state[key] = value
DictSet(m, k, v) == [x \in (DOMAIN m) \cup {k} |-> IF x = k THEN v ELSE m[x]]

\* the two processes that write the state file, and a process outside
\* load_state ... save_state: handle is where the file it has open for
\* writing is linked ("tmp", "state", "gone" once unlinked, "none" when closed)
Savers == {"daemon", "nav"}
NoSaver == [pc |-> "idle", handle |-> "none", state |-> EmptyMap]

\* ------------------------------------------------------------ state
VARIABLES
    variant,    \* which daemon script runs: "awp_daemon" or "daemon"
    cfg,        \* cfg[w]: the [ws<w+1>] section of the configuration, as the
                \* AWPConfig object has loaded it (get_workspace_config(w))
    cfg_disk,   \* cfg_disk[w]: the same section of the file on disk
    saver,      \* saver[p]: process p inside load_state ... save_state, when
                \* the two writers are followed step by step
    stateFile,  \* content of STATE_PATH (indexes.json)
    tmpFile,    \* content of STATE_PATH + ".tmp"
    ws,         \* ws[w]: the Workspace object of workspace w
    last_ws,    \* main_loop's last_ws
    clock,      \* time.time(), in half seconds
    now,        \* main_loop's now
    ws_num,     \* main_loop's ws_num
    pc,         \* position of the daemon in main_loop / apply_index / save_state
    ret,        \* which call of apply_index is running: "switch" or "timer"
    new_index,  \* apply_index's argument
    state,      \* apply_index's local dict
    shown,      \* the set_wallpaper call made in this tick: <<ws_num, image>>
    probe_failed, \* whether xprop failed when this tick asked for the workspace
    nav,         \* the last navigation command run: [cmd, ws_num, len_imgs]
    args,        \* the arguments of a helper function called on its own
    result       \* what that call returned

vars == <<variant, cfg, cfg_disk, saver, stateFile, tmpFile, ws, last_ws, clock, now,
          ws_num, pc, ret, new_index, state, shown, probe_failed, nav,
          args, result>>

\* what no step of the daemon assigns: its script, the configuration it was
\* started with, the record of the navigation commands, and the helper
\* functions called on their own
env == <<variant, cfg, cfg_disk, saver, nav, args, result>>
locals == <<ret, new_index, state, probe_failed>>

\* ------------------------------------------------------------ Workspace
\* images[index] with Python's index rules
PyInRange(s, i) == (0 - Len(s)) <= i /\ i < Len(s)
PyIndex(s, i) == IF i >= 0 THEN s[i + 1] ELSE s[Len(s) + i + 1]

\* self.index = int(state.get(self.key, 0) or 0), then the range check
StoredIndex(file, w) == DictGet(load_state(file), get_ws_key(w), 0)

\* the stored index thrown away whatever it is
ClampIndex_Reset(v, n) == 0

ClampIndex(v, n) == IF n = 0 \/ v >= n THEN 0 ELSE v

\* sort_images(load_images(folder), order) for every folder content and every
\* order of the configuration, computed once
SortedFolders ==
    [dir \in Folders |->
       [order_key \in {"name_az", "name_za", "name_new", "name_old"} |->
          sort_images(load_images(dir), order_key)]]

\* the image list reload_images_and_index builds when the workspace's folder
\* holds the files dir
ReloadImages(w, dir) ==
    LET order_key == IF cfg[w].mode = "sequential" THEN cfg[w].order ELSE "name_az"
    IN IF dir \in Folders /\ order_key \in DOMAIN SortedFolders[dir]
       THEN SortedFolders[dir][order_key]
       ELSE sort_images(load_images(dir), order_key)

\* Workspace.reload_images_and_index, run to completion
reload_images_and_index(w, dir) ==
    LET imgs == ReloadImages(w, dir)
    IN [ws[w] EXCEPT !.timing = TimingOf(cfg[w].timing),
                     !.mode = cfg[w].mode,
                     !.order = cfg[w].order,
                     !.images = imgs,
                     !.index = ClampIndex(StoredIndex(stateFile, w), Len(imgs))]

\* stat() of a listed file can fail inside sort_images (file removed after the
\* glob, dangling link): the fields assigned before the sort are kept
ReloadCanRaise(w, dir) ==
    /\ cfg[w].mode = "sequential"
    /\ SortStats(cfg[w].order)
    /\ load_images(dir) # <<>>

ReloadRaised(w, dir) ==
    [ws[w] EXCEPT !.timing = TimingOf(cfg[w].timing),
                  !.mode = cfg[w].mode,
                  !.order = cfg[w].order,
                  !.images = load_images(dir)]

\* the redraw loop left out: random mode may return the current index
pick_next_index_NoRedraw(self) ==
    LET n == Len(self.images)
    IN IF n = 0 THEN {0}
       ELSE IF self.mode = "random"
            THEN 0 .. (n - 1)
            ELSE {(self.index + 1) % n}

\* no wraparound: sequential mode runs past the end of the list
pick_next_index_NoWrap(self) ==
    LET n == Len(self.images)
    IN IF n = 0 THEN {0}
       ELSE IF self.mode = "random"
            THEN IF n = 1 THEN {0}
                 ELSE {i \in 0 .. (n - 1) : i # self.index}
            ELSE {self.index + 1}

\* Workspace.pick_next_index: the values it can return
pick_next_index(self) ==
    LET n == Len(self.images)
    IN IF n = 0 THEN {0}
       ELSE IF self.mode = "random"
            THEN IF n = 1 THEN {0}
                 ELSE {i \in 0 .. (n - 1) : i # self.index}
            ELSE {(self.index + 1) % n}

\* Workspace.__init__ for every configured workspace (main)
Construct(w, dir, c, file, t) ==
    LET imgs == sort_images(load_images(dir),
                    IF c[w].mode = "sequential" THEN c[w].order ELSE "name_az")
    IN [timing |-> TimingOf(c[w].timing),
        mode |-> c[w].mode,
        order |-> c[w].order,
        images |-> imgs,
        index |-> ClampIndex(StoredIndex(file, w), Len(imgs)),
        next_switch_time |-> t + TimingOf(c[w].timing)]

\* ------------------------------------------------------------ Init
Init ==
    /\ variant \in Variants
    /\ cfg \in Configs
    /\ cfg_disk = cfg
    /\ saver = [p \in Savers |-> NoSaver]
    /\ stateFile = Absent
    /\ tmpFile = Absent
    /\ clock = 0
    /\ \E dir \in Folders :
          ws = [w \in WsNums |-> Construct(w, dir, cfg, stateFile, clock)]
    /\ last_ws = NoWS
    /\ now = 0
    /\ ws_num = NoWS
    /\ pc = "probe"
    /\ ret = "none"
    /\ new_index = 0
    /\ state = EmptyMap
    /\ shown = NoCall
    /\ probe_failed = FALSE
    /\ nav = NoNav
    /\ args = NoArgs
    /\ result = <<>>

\* ------------------------------------------------------------ main_loop
Registered(n) == n \in WsNums

\* an exception leaves the try block: awp_daemon.py logs it and backs off,
\* daemon.py has no handler and the process ends
Raised == IF variant = "awp_daemon" THEN "backoff" ELSE "dead"

\* get_current_workspace answers r; unregistered numbers idle the tick
Probe ==
    /\ pc = "probe"
    /\ \E r \in 0 .. NumWS :
          /\ ws_num' = r
          /\ pc' = IF Registered(r) THEN "switch" ELSE "sleep"
    /\ now' = clock
    /\ probe_failed' = FALSE
    /\ UNCHANGED <<env, stateFile, tmpFile, ws, last_ws, clock, ret, new_index,
                   state, shown>>

\* xprop fails: awp_daemon.get_current_workspace raises,
\* core.actions.get_current_workspace prints the error and returns 0
ProbeFails ==
    /\ pc = "probe"
    /\ now' = clock
    /\ IF variant = "awp_daemon"
       THEN /\ pc' = Raised
            /\ UNCHANGED ws_num
       ELSE /\ ws_num' = 0
            /\ pc' = IF Registered(0) THEN "switch" ELSE "sleep"
    /\ probe_failed' = TRUE
    /\ UNCHANGED <<env, stateFile, tmpFile, ws, last_ws, clock, ret, new_index,
                   state, shown>>

\* force_single_workspace_off raises (the backend's command is missing)
ForceOffFails ==
    /\ pc = "switch"
    /\ pc' = Raised
    /\ UNCHANGED <<env, stateFile, tmpFile, ws, last_ws, clock, now, ws_num,
                   locals, shown>>

\* if ws_num != last_ws: reload, then apply_index(ws.index)
SwitchCheck ==
    /\ pc = "switch"
    /\ IF ws_num # last_ws
       THEN /\ \E dir \in Folders :
                  ws' = [ws EXCEPT ![ws_num] = reload_images_and_index(ws_num, dir)]
            /\ new_index' = ws'[ws_num].index
            /\ ret' = "switch"
            /\ pc' = "apply_load"
       ELSE /\ pc' = "timer"
            /\ UNCHANGED <<ws, new_index, ret>>
    /\ UNCHANGED <<env, stateFile, tmpFile, last_ws, clock, now, ws_num, state,
                   shown, probe_failed>>

SwitchReloadFails ==
    /\ pc = "switch"
    /\ ws_num # last_ws
    /\ \E dir \in Folders :
          /\ ReloadCanRaise(ws_num, dir)
          /\ ws' = [ws EXCEPT ![ws_num] = ReloadRaised(ws_num, dir)]
    /\ pc' = Raised
    /\ UNCHANGED <<env, stateFile, tmpFile, last_ws, clock, now, ws_num, locals,
                   shown>>

\* the load left out: the dict saved holds this workspace's key only
ApplyLoad_NoLoad ==
    /\ pc = "apply_load"
    /\ state' = DictSet(EmptyMap, get_ws_key(ws_num), new_index)
    /\ ws' = [ws EXCEPT ![ws_num].index = new_index]
    /\ pc' = "save_open"
    /\ UNCHANGED <<env, stateFile, tmpFile, last_ws, clock, now, ws_num, ret,
                   new_index, shown, probe_failed>>

\* the assignment to self.index left out: only the state file gets the index
ApplyLoad_NoIndex ==
    /\ pc = "apply_load"
    /\ state' = DictSet(load_state(stateFile), get_ws_key(ws_num), new_index)
    /\ pc' = "save_open"
    /\ UNCHANGED <<env, stateFile, tmpFile, ws, last_ws, clock, now, ws_num, ret,
                   new_index, shown, probe_failed>>

\* apply_index: state = load_state(); self.index = new_index;
\* state[self.key] = self.index
ApplyLoad ==
    /\ pc = "apply_load"
    /\ state' = DictSet(load_state(stateFile), get_ws_key(ws_num), new_index)
    /\ ws' = [ws EXCEPT ![ws_num].index = new_index]
    /\ pc' = "save_open"
    /\ UNCHANGED <<env, stateFile, tmpFile, last_ws, clock, now, ws_num, ret,
                   new_index, shown, probe_failed>>

\* the state file itself opened for writing instead of the temporary file
SaveOpen_InPlace ==
    /\ pc = "save_open"
    /\ stateFile' = Empty
    /\ pc' = "save_write"
    /\ UNCHANGED <<env, tmpFile, ws, last_ws, clock, now, ws_num, locals,
                   shown>>

\* save_state: open(tmp, "w") creates or truncates the temporary file
SaveOpen ==
    /\ pc = "save_open"
    /\ tmpFile' = Empty
    /\ pc' = "save_write"
    /\ UNCHANGED <<env, stateFile, ws, last_ws, clock, now, ws_num, locals,
                   shown>>

SaveOpenFails ==
    /\ pc = "save_open"
    /\ pc' = Raised
    /\ UNCHANGED <<env, stateFile, tmpFile, ws, last_ws, clock, now, ws_num,
                   locals, shown>>

\* save_state: json.dump(state, f) and the close of the with block
SaveWrite ==
    /\ pc = "save_write"
    /\ tmpFile' = Doc(state)
    /\ pc' = "save_replace"
    /\ UNCHANGED <<env, stateFile, ws, last_ws, clock, now, ws_num, locals,
                   shown>>

\* the write stops half way (disk full)
SaveWriteFails ==
    /\ pc = "save_write"
    /\ tmpFile' = Partial
    /\ pc' = Raised
    /\ UNCHANGED <<env, stateFile, ws, last_ws, clock, now, ws_num, locals,
                   shown>>

\* save_state: os.replace(tmp, STATE_PATH)
SaveReplace ==
    /\ pc = "save_replace"
    /\ stateFile' = tmpFile
    /\ tmpFile' = Absent
    /\ pc' = "apply_backend"
    /\ UNCHANGED <<env, ws, last_ws, clock, now, ws_num, locals, shown>>

AfterApply == IF ret = "switch" THEN "switch_after" ELSE "timer_after"

\* apply_index after the save: the set_wallpaper call.
\* awp_daemon.py skips it and the status snapshot when there are no images;
\* daemon.py indexes self.images unconditionally
ApplyBackend ==
    /\ pc = "apply_backend"
    /\ LET w == ws[ws_num]
       IN IF w.images = <<>> /\ variant = "awp_daemon"
          THEN /\ pc' = AfterApply
               /\ UNCHANGED shown
          ELSE IF ~PyInRange(w.images, w.index)
          THEN /\ pc' = Raised
               /\ UNCHANGED shown
          ELSE /\ shown' = <<ws_num, PyIndex(w.images, w.index)>>
               /\ pc' = "apply_snapshot"
    /\ UNCHANGED <<env, stateFile, tmpFile, ws, last_ws, clock, now, ws_num,
                   locals>>

\* the backend's wallpaper function raises
SetWallpaperFails ==
    /\ pc = "apply_backend"
    /\ ws[ws_num].images # <<>>
    /\ PyInRange(ws[ws_num].images, ws[ws_num].index)
    /\ pc' = Raised
    /\ UNCHANGED <<env, stateFile, tmpFile, ws, last_ws, clock, now, ws_num,
                   locals, shown>>

\* the status snapshot is built and written: update_conky_state in
\* awp_daemon.py, generate_runtime_state and update_runtime_state in daemon.py
Snapshot ==
    /\ pc = "apply_snapshot"
    /\ pc' = AfterApply
    /\ UNCHANGED <<env, stateFile, tmpFile, ws, last_ws, clock, now, ws_num,
                   locals, shown>>

\* building or writing the status snapshot fails: update_conky_state swallows
\* the error, update_runtime_state lets it through
SnapshotFails ==
    /\ pc = "apply_snapshot"
    /\ pc' = IF variant = "awp_daemon" THEN AfterApply ELSE Raised
    /\ UNCHANGED <<env, stateFile, tmpFile, ws, last_ws, clock, now, ws_num,
                   locals, shown>>

\* the timer reset left out of the switch branch
SwitchAfter_NoReset ==
    /\ pc = "switch_after"
    /\ last_ws' = ws_num
    /\ pc' = "timer"
    /\ UNCHANGED <<env, stateFile, tmpFile, ws, clock, now, ws_num, locals, shown>>

\* rest of the switch branch: the timer reset, icon, config.reload, themes
SwitchAfter ==
    /\ pc = "switch_after"
    /\ ws' = [ws EXCEPT ![ws_num].next_switch_time = now + ws[ws_num].timing]
    /\ last_ws' = ws_num
    /\ pc' = "timer"
    /\ UNCHANGED <<env, stateFile, tmpFile, clock, now, ws_num, locals, shown>>

\* set_panel_icon, config.reload or set_themes raises after the timer reset
SwitchAfterFails ==
    /\ pc = "switch_after"
    /\ ws' = [ws EXCEPT ![ws_num].next_switch_time = now + ws[ws_num].timing]
    /\ pc' = Raised
    /\ UNCHANGED <<env, stateFile, tmpFile, last_ws, clock, now, ws_num, locals,
                   shown>>

\* the "if ws.images" test left out of the timer branch
Timer_NoEmptyCheck ==
    /\ pc = "timer"
    /\ IF now >= ws[ws_num].next_switch_time
       THEN \E dir \in Folders :
            LET r == reload_images_and_index(ws_num, dir)
            IN /\ ws' = [ws EXCEPT ![ws_num] = r]
               /\ new_index' \in pick_next_index(r)
               /\ ret' = "timer"
               /\ pc' = "apply_load"
       ELSE /\ pc' = "sleep"
            /\ UNCHANGED <<ws, new_index, ret>>
    /\ UNCHANGED <<env, stateFile, tmpFile, last_ws, clock, now, ws_num, state,
                   shown, probe_failed>>

\* if now >= ws.next_switch_time: reload, rotate when there are images
Timer ==
    /\ pc = "timer"
    /\ IF now >= ws[ws_num].next_switch_time
       THEN \E dir \in Folders :
            LET r == reload_images_and_index(ws_num, dir)
            IN IF r.images # <<>>
               THEN /\ ws' = [ws EXCEPT ![ws_num] = r]
                    /\ new_index' \in pick_next_index(r)
                    /\ ret' = "timer"
                    /\ pc' = "apply_load"
               ELSE /\ ws' = [ws EXCEPT ![ws_num] =
                                [r EXCEPT !.next_switch_time = now + r.timing]]
                    /\ pc' = "sleep"
                    /\ UNCHANGED <<new_index, ret>>
       ELSE /\ pc' = "sleep"
            /\ UNCHANGED <<ws, new_index, ret>>
    /\ UNCHANGED <<env, stateFile, tmpFile, last_ws, clock, now, ws_num, state,
                   shown, probe_failed>>

TimerReloadFails ==
    /\ pc = "timer"
    /\ now >= ws[ws_num].next_switch_time
    /\ \E dir \in Folders :
          /\ ReloadCanRaise(ws_num, dir)
          /\ ws' = [ws EXCEPT ![ws_num] = ReloadRaised(ws_num, dir)]
    /\ pc' = Raised
    /\ UNCHANGED <<env, stateFile, tmpFile, last_ws, clock, now, ws_num, locals,
                   shown>>

\* ws.next_switch_time = now + ws.timing after the rotation
TimerAfter ==
    /\ pc = "timer_after"
    /\ ws' = [ws EXCEPT ![ws_num].next_switch_time = now + ws[ws_num].timing]
    /\ pc' = "sleep"
    /\ UNCHANGED <<env, stateFile, tmpFile, last_ws, clock, now, ws_num, locals,
                   shown>>

PollSleep == IF variant = "awp_daemon" THEN PollSleepAwp ELSE PollSleepDaemon

\* time.sleep at the end of the loop body; the tick's locals go out of scope
Sleep ==
    /\ pc = "sleep"
    /\ clock + PollSleep <= MaxTime
    /\ clock' = clock + PollSleep
    /\ pc' = "probe"
    /\ ws_num' = NoWS
    /\ now' = 0
    /\ ret' = "none"
    /\ new_index' = 0
    /\ state' = EmptyMap
    /\ shown' = NoCall
    /\ probe_failed' = FALSE
    /\ UNCHANGED <<env, stateFile, tmpFile, ws, last_ws>>

\* except Exception: logger.error(...); time.sleep(1)
Backoff ==
    /\ pc = "backoff"
    /\ clock + BackoffSleepAwp <= MaxTime
    /\ clock' = clock + BackoffSleepAwp
    /\ pc' = "sleep"
    /\ UNCHANGED <<env, stateFile, tmpFile, ws, last_ws, now, ws_num, locals,
                   shown>>

\* ------------------------------------------------------------ environment
\* the process is killed inside save_state
Crash ==
    /\ pc \in {"save_open", "save_write", "save_replace"}
    /\ pc' = "crashed"
    /\ UNCHANGED <<env, stateFile, tmpFile, ws, last_ws, clock, now, ws_num,
                   locals, shown>>

\* the process is killed while json.dump is writing the temporary file
CrashMidWrite ==
    /\ pc = "save_write"
    /\ tmpFile' = Partial
    /\ pc' = "crashed"
    /\ UNCHANGED <<env, stateFile, ws, last_ws, clock, now, ws_num, locals,
                   shown>>

Next ==
    \/ Probe
    \/ ProbeFails
    \/ ForceOffFails
    \/ SwitchCheck
    \/ SwitchReloadFails
    \/ ApplyLoad
    \/ SaveOpen
    \/ SaveOpenFails
    \/ SaveWrite
    \/ SaveWriteFails
    \/ SaveReplace
    \/ ApplyBackend
    \/ SetWallpaperFails
    \/ Snapshot
    \/ SnapshotFails
    \/ SwitchAfter
    \/ SwitchAfterFails
    \/ Timer
    \/ TimerReloadFails
    \/ TimerAfter
    \/ Sleep
    \/ Backoff
    \/ Crash
    \/ CrashMidWrite

Spec == Init /\ [][Next]_vars

\* ------------------------------------------------------------ Workspace alone
\* The Workspace operations on their own: reload, pick_next_index, apply_index.
\* the state files whose indexes are drawn from the set values
StoredFiles(values) ==
    {Absent} \cup
    { Doc(m) : m \in UNION { [K -> values] :
                               K \in SUBSET { get_ws_key(w) : w \in WsNums } } }

\* main(): the Workspace objects are built from the state file found on disk
InitFrom(files) ==
    /\ variant \in Variants
    /\ cfg \in Configs
    /\ cfg_disk = cfg
    /\ saver = [p \in Savers |-> NoSaver]
    /\ stateFile \in files
    /\ tmpFile = Absent
    /\ clock = 0
    /\ \E dir \in Folders :
          ws = [w \in WsNums |-> Construct(w, dir, cfg, stateFile, clock)]
    /\ last_ws = NoWS
    /\ now = 0
    /\ ws_num = NoWS
    /\ pc = "constructed"
    /\ ret = "none"
    /\ new_index = 0
    /\ state = EmptyMap
    /\ shown = NoCall
    /\ probe_failed = FALSE
    /\ nav = NoNav
    /\ args = NoArgs
    /\ result = <<>>

\* ws.reload_images_and_index() of some workspace, with some folder content
WsReload ==
    /\ pc = "constructed"
    /\ \E w \in WsNums, dir \in Folders :
          /\ ws_num' = w
          /\ ws' = [ws EXCEPT ![w] = reload_images_and_index(w, dir)]
    /\ pc' = "reloaded"
    /\ UNCHANGED <<env, stateFile, tmpFile, last_ws, clock, now, locals, shown>>

\* new_idx = ws.pick_next_index(), as main_loop calls it: only with images;
\* after an apply_index it is the next rotation on the unchanged image list
WsPick ==
    /\ pc \in {"reloaded", "applied"}
    /\ ws[ws_num].images # <<>>
    /\ new_index' \in pick_next_index(ws[ws_num])
    /\ pc' = "picked"
    /\ UNCHANGED <<env, stateFile, tmpFile, ws, last_ws, clock, now, ws_num, ret,
                   state, shown, probe_failed>>

\* ws.apply_index(new_idx) without a fault: the position and the state file
WsApply ==
    /\ pc = "picked"
    /\ ws' = [ws EXCEPT ![ws_num].index = new_index]
    /\ stateFile' = Doc(DictSet(load_state(stateFile), get_ws_key(ws_num), new_index))
    /\ shown' = <<ws_num, PyIndex(ws[ws_num].images, new_index)>>
    /\ pc' = "applied"
    /\ UNCHANGED <<env, tmpFile, last_ws, clock, now, ws_num, locals>>

NextWorkspace ==
    \/ WsReload
    \/ WsPick
    \/ WsApply

\* started from a state file the daemon and the navigation commands can have
\* left behind: they store indexes >= 0 only
\* (class Workspace reads the same in both scripts: one of them is run)
InitWorkspace ==
    /\ InitFrom(StoredFiles(0 .. MaxStored))
    /\ variant = "awp_daemon"

SpecWorkspace == InitWorkspace /\ [][NextWorkspace]_vars

\* ------------------------------------------------------------ reload alone
\* reload_images_and_index on a state file holding any JSON integer, as the
\* file is left by hand or by another program
InitReload ==
    /\ InitFrom(StoredFiles((0 - MaxNegStored) .. MaxStored))
    /\ variant = "awp_daemon"

NextReload == WsReload

SpecReload == InitReload /\ [][NextReload]_vars

\* ------------------------------------------------------------ navigation
\* nav.py / awp_nav.py: one command per run, on the current workspace, with the
\* folder content found at that moment.
\* int(state.get(key, default) or default)
IntOr(m, k, default) ==
    LET v == DictGet(m, k, default) IN IF v = 0 THEN default ELSE v

\* idx = int(state.get(ws_key, 0) or 0); if idx >= len(imgs): idx = 0
NavIdx(m, w, n) ==
    LET idx == IntOr(m, get_ws_key(w), 0) IN IF idx >= n THEN 0 ELSE idx

\* last_idx = int(state.get(ws_key + '_last', -1) or -1)
NavLastIdx(m, w) == IntOr(m, LastKey(w), -1)

\* new_idx for "next": a redraw away from idx, or the following position
NavNextIdx(mode, idx, n) ==
    IF mode = "random"
    THEN IF n = 1 THEN {0} ELSE {i \in 0 .. (n - 1) : i # idx}
    ELSE {(idx + 1) % n}

\* the test last_idx >= 0 left out
NavPrevIdx_NoLowerCheck(mode, idx, last_idx, n) ==
    IF mode = "random"
    THEN IF last_idx < n THEN last_idx ELSE idx
    ELSE (idx - 1) % n

\* new_idx for "prev"
NavPrevIdx(mode, idx, last_idx, n) ==
    IF mode = "random"
    THEN IF last_idx >= 0 /\ last_idx < n THEN last_idx ELSE idx
    ELSE (idx - 1) % n

\* state[ws_key + '_last'] = idx; state[ws_key] = new_idx; save_state(state)
NavSave(m, w, idx, new_idx) ==
    Doc(DictSet(DictSet(m, LastKey(w), idx), get_ws_key(w), new_idx))

\* the state files main() can leave for workspace w with n images
NavNextFiles(file, w, n) ==
    LET m == load_state(file)
        idx == NavIdx(m, w, n)
    IN { NavSave(m, w, idx, new_idx) :
           new_idx \in NavNextIdx(cfg[w].mode, idx, n) }

NavPrevFile(file, w, n) ==
    LET m == load_state(file)
        idx == NavIdx(m, w, n)
    IN NavSave(m, w, idx, NavPrevIdx(cfg[w].mode, idx, NavLastIdx(m, w), n))

\* len(imgs) for imgs = sort_images(load_images(folder), ...): the number of
\* entries of the folder the two patterns match
NavLen(dir) == Cardinality({f \in dir : IsJpg(f) \/ IsPng(f)})

\* main() with the argument next, run on workspace w
NavNextOn(w) ==
    \E dir \in Folders :
        LET n == NavLen(dir)
        IN /\ n > 0
           /\ stateFile' \in NavNextFiles(stateFile, w, n)
           /\ tmpFile' = Absent
           /\ nav' = [cmd |-> "next", ws_num |-> w, len_imgs |-> n]
           /\ UNCHANGED <<variant, cfg, cfg_disk, saver, args, result, ws, last_ws, clock, now,
                          ws_num, pc, locals, shown>>

\* main() with the argument prev, run on workspace w
NavPrevOn(w) ==
    \E dir \in Folders :
        LET n == NavLen(dir)
        IN /\ n > 0
           /\ stateFile' = NavPrevFile(stateFile, w, n)
           /\ tmpFile' = Absent
           /\ nav' = [cmd |-> "prev", ws_num |-> w, len_imgs |-> n]
           /\ UNCHANGED <<variant, cfg, cfg_disk, saver, args, result, ws, last_ws, clock, now,
                          ws_num, pc, locals, shown>>

\* new_idx of delete_current_wallpaper_and_advance, on the list left after
\* the removal
NavDeleteIdx(mode, current_idx, n) ==
    IF mode = "random"
    THEN IF n = 1 THEN {0} ELSE {i \in 0 .. (n - 1) : i # current_idx}
    ELSE {current_idx % n}

\* delete_current_wallpaper_and_advance on workspace w, confirmed and with the
\* file imgs[current_idx] removed: the second load_images finds one image
\* less; with none left it returns before the state is written
NavDeleteOn(w) ==
    \E dir \in Folders :
        LET m == load_state(stateFile)
            current_idx == NavIdx(m, w, NavLen(dir))
            n == NavLen(dir) - 1
        IN /\ NavLen(dir) > 0
           /\ (0 - NavLen(dir)) <= current_idx
           /\ n > 0
           /\ \E new_idx \in NavDeleteIdx(cfg[w].mode, current_idx, n) :
                 stateFile' = NavSave(m, w, current_idx, new_idx)
           /\ nav' = [cmd |-> "delete", ws_num |-> w, len_imgs |-> n]
           /\ tmpFile' = Absent
           /\ UNCHANGED <<variant, cfg, cfg_disk, saver, args, result, ws, last_ws, clock, now,
                          ws_num, pc, locals, shown>>

\* the commands on whichever workspace is the current one
NavNext == \E w \in WsNums : NavNextOn(w)
NavPrev == \E w \in WsNums : NavPrevOn(w)
NavDelete == \E w \in WsNums : NavDeleteOn(w)

NextNav ==
    \/ NavNext
    \/ NavPrev
    \/ NavDelete

\* the commands alone, on a state file the daemon has left
InitNav ==
    /\ InitFrom(StoredFiles(0 .. MaxStored))
    /\ variant = "daemon"
    /\ \A w \in WsNums : ws[w].images = <<>>

SpecNav == InitNav /\ [][NextNav]_vars

\* ------------------------------------------------------------ main
\* main(): Workspace(i, config) for i in range(n_ws), each in its own try;
\* a workspace whose construction raises is not registered.
NoWorkspace ==
    [timing |-> 0, mode |-> "none", order |-> "none", images |-> <<>>,
     index |-> 0, next_switch_time |-> 0]

\* the state files main() can find: absent, empty, cut off, holding JSON that
\* is not an object, or holding a map of indexes
LoadFiles ==
    {Empty, Partial, Doc(JsonArray)} \cup StoredFiles(0 .. MaxStored)

InitLoad ==
    /\ variant \in Variants
    /\ cfg \in Configs
    /\ cfg_disk = cfg
    /\ saver = [p \in Savers |-> NoSaver]
    /\ stateFile \in LoadFiles
    /\ tmpFile = Absent
    /\ clock = 0
    /\ ws = [w \in WsNums |-> NoWorkspace]
    /\ last_ws = NoWS
    /\ now = 0
    /\ ws_num = 0
    /\ pc = "main"
    /\ ret = "none"
    /\ new_index = 0
    /\ state = EmptyMap
    /\ shown = NoCall
    /\ probe_failed = FALSE
    /\ nav = NoNav
    /\ args = NoArgs
    /\ result = <<>>

\* one pass of the loop: Workspace(i, config) returns and is registered
MainWorkspace ==
    /\ pc = "main"
    /\ IsObject(load_state(stateFile))
    /\ \E dir \in Folders :
          ws' = [ws EXCEPT ![ws_num] = Construct(ws_num, dir, cfg, stateFile, clock)]
    /\ state' = load_state(stateFile)
    /\ ws_num' = ws_num + 1
    /\ pc' = IF ws_num + 1 = NumWS THEN "constructed" ELSE "main"
    /\ UNCHANGED <<env, stateFile, tmpFile, last_ws, clock, now, ret, new_index,
                   shown, probe_failed>>

\* one pass of the loop: state.get raises AttributeError in
\* reload_images_and_index, main logs a warning and goes on
MainWorkspaceFails ==
    /\ pc = "main"
    /\ ~IsObject(load_state(stateFile))
    /\ state' = load_state(stateFile)
    /\ ws_num' = ws_num + 1
    /\ pc' = IF ws_num + 1 = NumWS THEN "constructed" ELSE "main"
    /\ UNCHANGED <<env, stateFile, tmpFile, ws, last_ws, clock, now, ret,
                   new_index, shown, probe_failed>>

NextLoad ==
    \/ MainWorkspace
    \/ MainWorkspaceFails

SpecLoad == InitLoad /\ [][NextLoad]_vars

\* ------------------------------------------------------------ helpers alone
\* load_images and sort_images called on their own, on every folder and on
\* every list of up to MaxFiles distinct image paths.
FolderStates == {Missing, NotADirectory} \cup { Directory(S) : S \in SUBSET Entries }

ImageLists ==
    UNION { { s \in [1 .. k -> {e \in Entries : IsJpg(e) \/ IsPng(e)}] :
                \A i, j \in 1 .. k : i # j => s[i] # s[j] } :
            k \in 0 .. MaxFiles }

OrderKeys == {"name_az", "name_za", "name_new", "name_old", "shuffle"}

InitHelpers ==
    /\ InitFrom({Absent})
    /\ variant = "awp_daemon"
    /\ \A w \in WsNums : ws[w].images = <<>>
    /\ cfg = [w \in WsNums |-> CfgChoices[(w % Len(CfgChoices)) + 1]]

CallLoadImages ==
    /\ pc = "constructed"
    /\ \E folder \in FolderStates :
          /\ args' = [NoArgs EXCEPT !.fn = "load_images", !.folder = folder]
          /\ result' = LoadImagesAt(folder)
    /\ pc' = "returned"
    /\ UNCHANGED <<variant, cfg, cfg_disk, saver, nav, stateFile, tmpFile, ws, last_ws, clock,
                   now, ws_num, locals, shown>>

CallSortImages ==
    /\ pc = "constructed"
    /\ \E images \in ImageLists, order_key \in OrderKeys :
          /\ args' = [NoArgs EXCEPT !.fn = "sort_images", !.images = images,
                                    !.order_key = order_key]
          /\ result' = sort_images(images, order_key)
    /\ pc' = "returned"
    /\ UNCHANGED <<variant, cfg, cfg_disk, saver, nav, stateFile, tmpFile, ws, last_ws, clock,
                   now, ws_num, locals, shown>>

\* a workspace takes its timing from the string timing_str; result is the
\* list holding self.timing
CallParseTiming ==
    /\ pc = "constructed"
    /\ \E s \in TimingStrings :
          /\ args' = [NoArgs EXCEPT !.fn = "parse_timing", !.timing_str = s]
          /\ result' = <<SelfTiming(s)>>
    /\ pc' = "returned"
    /\ UNCHANGED <<variant, cfg, cfg_disk, saver, nav, stateFile, tmpFile, ws, last_ws, clock,
                   now, ws_num, locals, shown>>

NextHelpers ==
    \/ CallLoadImages
    \/ CallSortImages
    \/ CallParseTiming

SpecHelpers == InitHelpers /\ [][NextHelpers]_vars

\* ------------------------------------------------------------ daemon and commands
\* The daemon's Workspace operations and the navigation commands on one state
\* file, each operation run to completion. The commands act on the current
\* workspace, the one the daemon has switched to.
\* main_loop's switch branch on a workspace with images: ws.apply_index(ws.index)
WsSwitch ==
    /\ pc = "reloaded"
    /\ ws[ws_num].images # <<>>
    /\ new_index' = ws[ws_num].index
    /\ pc' = "picked"
    /\ UNCHANGED <<env, stateFile, tmpFile, ws, last_ws, clock, now, ws_num, ret,
                   state, shown, probe_failed>>

\* the same on a workspace without images: the index is stored, no wallpaper
\* is set (daemon.py raises IndexError after the store)
WsSwitchEmpty ==
    /\ pc = "reloaded"
    /\ ws[ws_num].images = <<>>
    /\ new_index' = ws[ws_num].index
    /\ stateFile' = Doc(DictSet(load_state(stateFile), get_ws_key(ws_num),
                                ws[ws_num].index))
    /\ pc' = "applied"
    /\ UNCHANGED <<env, tmpFile, ws, last_ws, clock, now, ws_num, ret, state,
                   shown, probe_failed>>

\* a command is run on the workspace the daemon has switched to
OnCurrent == pc # "constructed"
NavNextCurrent == OnCurrent /\ NavNextOn(ws_num)
NavPrevCurrent == OnCurrent /\ NavPrevOn(ws_num)
NavDeleteCurrent == OnCurrent /\ NavDeleteOn(ws_num)

\* the user leaves the workspace and comes back: the daemon reloads it from
\* the folder and the state file as they are by then
WsReloadAgain ==
    /\ pc = "applied"
    /\ \E dir \in Folders :
          ws' = [ws EXCEPT ![ws_num] = reload_images_and_index(ws_num, dir)]
    /\ pc' = "reloaded"
    /\ UNCHANGED <<env, stateFile, tmpFile, last_ws, clock, now, ws_num, locals,
                   shown>>

NextShared ==
    \/ WsReload
    \/ WsReloadAgain
    \/ WsSwitch
    \/ WsSwitchEmpty
    \/ WsPick
    \/ WsApply
    \/ NavNextCurrent
    \/ NavPrevCurrent
    \/ NavDeleteCurrent

\* the daemon is started with every folder full, on a store holding no index
\* or an index past the end of the folder for each workspace
InitShared ==
    /\ InitFrom(StoredFiles({MaxStored}))
    /\ variant = "awp_daemon"
    /\ \A w \in WsNums : Len(ws[w].images) = MaxFiles

SpecShared == InitShared /\ [][NextShared]_vars

\* -------------------------------------------- main_loop and the config file
\* awp_daemon.py's main_loop without faults, each branch run to completion,
\* while the user edits the configuration file.

\* what the user may save: the configurations above, and one with the
\* timings -1s (workspace 0) and 0s (the others)
EditedConfigs ==
    Configs \cup
    { [w \in WsNums |-> [timing |-> TimingStr(IF w = 0 THEN 0 - 1 ELSE 0, "s"),
                         mode |-> "sequential", order |-> "name_az"]] }

\* the user saves another configuration
EditConfig ==
    /\ cfg_disk' \in EditedConfigs \ {cfg_disk}
    /\ UNCHANGED <<variant, cfg, saver, nav, args, result, stateFile, tmpFile,
                   ws, last_ws, clock, now, ws_num, pc, locals, shown>>

\* time.sleep(0.5) and the top of the next iteration: now and ws_num, with
\* the probe returning one of the workspaces active
LoopTickTo(active) ==
    /\ pc \in {"constructed", "sleep"}
    /\ clock' = IF pc = "sleep" THEN clock + PollSleep ELSE clock
    /\ clock' <= MaxTime
    /\ now' = clock'
    /\ ws_num' \in active
    /\ ret' = "none"
    /\ shown' = NoCall
    /\ pc' = "switch"
    /\ UNCHANGED <<env, stateFile, tmpFile, ws, last_ws, new_index, state,
                   probe_failed>>

LoopTick == LoopTickTo(WsNums)

\* if ws_num != last_ws: reload, apply_index(ws.index), the timer reset,
\* config.reload() and last_ws = ws_num
LoopSwitch ==
    /\ pc = "switch"
    /\ IF ws_num # last_ws
       THEN /\ \E dir \in Folders :
                  LET self == reload_images_and_index(ws_num, dir)
                  IN /\ ws' = [ws EXCEPT ![ws_num] =
                                [self EXCEPT !.next_switch_time = now + self.timing]]
                     /\ stateFile' = Doc(DictSet(load_state(stateFile),
                                                get_ws_key(ws_num), self.index))
                     /\ shown' = IF self.images # <<>>
                                 THEN <<ws_num, PyIndex(self.images, self.index)>>
                                 ELSE NoCall
                     /\ new_index' = self.index
            /\ cfg' = cfg_disk
            /\ last_ws' = ws_num
            /\ ret' = "switch"
       ELSE UNCHANGED <<ws, stateFile, shown, new_index, cfg, last_ws, ret>>
    /\ pc' = "timer"
    /\ UNCHANGED <<variant, cfg_disk, saver, nav, args, result, tmpFile, clock,
                   now, ws_num, state, probe_failed>>

\* if now >= ws.next_switch_time: reload, pick and apply if there are images,
\* and the timer reset
LoopTimer ==
    /\ pc = "timer"
    /\ IF now >= ws[ws_num].next_switch_time
       THEN /\ \E dir \in Folders :
                  LET self == reload_images_and_index(ws_num, dir)
                  IN IF self.images # <<>>
                     THEN \E new_idx \in pick_next_index(self) :
                            /\ ws' = [ws EXCEPT ![ws_num] =
                                       [self EXCEPT !.index = new_idx,
                                                    !.next_switch_time = now + self.timing]]
                            /\ stateFile' = Doc(DictSet(load_state(stateFile),
                                                       get_ws_key(ws_num), new_idx))
                            /\ shown' = <<ws_num, PyIndex(self.images, new_idx)>>
                            /\ new_index' = new_idx
                     ELSE /\ ws' = [ws EXCEPT ![ws_num] =
                                       [self EXCEPT !.next_switch_time = now + self.timing]]
                          /\ UNCHANGED <<stateFile, shown, new_index>>
            /\ ret' = "timer"
       ELSE UNCHANGED <<ws, stateFile, shown, new_index, ret>>
    /\ pc' = "sleep"
    /\ UNCHANGED <<env, tmpFile, last_ws, clock, now, ws_num, state, probe_failed>>

NextLoop ==
    \/ EditConfig
    \/ LoopTick
    \/ LoopSwitch
    \/ LoopTimer

InitLoop ==
    /\ InitFrom({Absent})
    /\ variant = "awp_daemon"

SpecLoop == InitLoop /\ [][NextLoop]_vars

\* The same loop while the user stays on one workspace: after the first
\* switch the probe keeps returning last_ws.
LoopTickSame == LoopTickTo(IF last_ws = NoWS THEN WsNums ELSE {last_ws})

NextStay ==
    \/ LoopTickSame
    \/ LoopSwitch
    \/ LoopTimer

\* The loop is one sequential thread that nothing blocks: while no call
\* raises, each statement it has reached is executed. (The tick stops being
\* enabled when the clock reaches MaxTime.)
SpecStay ==
    /\ InitLoop
    /\ [][NextStay]_vars
    /\ WF_vars(LoopTickSame)
    /\ WF_vars(LoopSwitch)
    /\ WF_vars(LoopTimer)

\* ------------------------------------------------- two writers of the store
\* The daemon's apply_index and a navigation command's main(), each followed
\* through state = load_state(), its assignments and the steps of
\* save_state(state); both use the path STATE_PATH + ".tmp".

\* state = load_state() and the assignments: the daemon sets the workspace's
\* index, time after time; the command (next, on a full folder), which is
\* run once, sets its _last and its index
SaverLoad(p) ==
    /\ saver[p].pc \in IF p = "daemon" THEN {"idle", "done", "raised"} ELSE {"idle"}
    /\ \E w \in WsNums :
          \E m \in IF p = "daemon"
                   THEN { DictSet(load_state(stateFile), get_ws_key(w), i) :
                            i \in 0 .. (MaxFiles - 1) }
                   ELSE { f.doc : f \in NavNextFiles(stateFile, w, MaxFiles) } :
             saver' = [saver EXCEPT ![p] = [pc |-> "open", handle |-> "none",
                                            state |-> m]]
    /\ UNCHANGED <<variant, cfg, cfg_disk, nav, args, result, stateFile, tmpFile,
                   ws, last_ws, clock, now, ws_num, pc, locals, shown>>

\* open(tmp, "w"): the file linked at the temporary path is truncated, or a
\* new one is created there
SaverOpen(p) ==
    /\ saver[p].pc = "open"
    /\ tmpFile' = Empty
    /\ saver' = [saver EXCEPT ![p].pc = "write", ![p].handle = "tmp"]
    /\ UNCHANGED <<variant, cfg, cfg_disk, nav, args, result, stateFile, ws,
                   last_ws, clock, now, ws_num, pc, locals, shown>>

\* json.dump(state, f): the buffer is flushed with part of the document, or
\* with all of it when the with block closes the file; the bytes go to the
\* file the handle is on, wherever it is linked by now
SaverWrite(p) ==
    /\ saver[p].pc = "write"
    /\ \E closed \in BOOLEAN :
          LET content == IF closed THEN Doc(saver[p].state) ELSE Partial
          IN /\ tmpFile' = IF saver[p].handle = "tmp" THEN content ELSE tmpFile
             /\ stateFile' = IF saver[p].handle = "state" THEN content ELSE stateFile
             /\ saver' = IF closed
                         THEN [saver EXCEPT ![p].pc = "replace", ![p].handle = "none"]
                         ELSE saver
    /\ UNCHANGED <<variant, cfg, cfg_disk, nav, args, result, ws, last_ws, clock,
                   now, ws_num, pc, locals, shown>>

\* os.replace(tmp, STATE_PATH): the file at the temporary path is linked at
\* the state path; FileNotFoundError when the other process has renamed it
SaverReplace(p) ==
    /\ saver[p].pc = "replace"
    /\ IF tmpFile.kind = "absent"
       THEN /\ saver' = [saver EXCEPT ![p].pc = "raised"]
            /\ UNCHANGED <<stateFile, tmpFile>>
       ELSE /\ stateFile' = tmpFile
            /\ tmpFile' = Absent
            /\ saver' = [q \in Savers |->
                           IF q = p THEN [saver[q] EXCEPT !.pc = "done"]
                           ELSE IF saver[q].handle = "tmp"
                           THEN [saver[q] EXCEPT !.handle = "state"]
                           ELSE IF saver[q].handle = "state"
                           THEN [saver[q] EXCEPT !.handle = "gone"]
                           ELSE saver[q]]
    /\ UNCHANGED <<variant, cfg, cfg_disk, nav, args, result, ws, last_ws, clock,
                   now, ws_num, pc, locals, shown>>

NextSave ==
    \/ \E p \in Savers : SaverLoad(p)
    \/ \E p \in Savers : SaverOpen(p)
    \/ \E p \in Savers : SaverWrite(p)
    \/ \E p \in Savers : SaverReplace(p)

InitSave ==
    /\ InitFrom({Absent})
    /\ variant = "awp_daemon"
    /\ \A w \in WsNums : Len(ws[w].images) = MaxFiles

SpecSave == InitSave /\ [][NextSave]_vars

\* ------------------------------------------------------------ properties
PositionInRange(self) ==
    self.images # <<>> => (0 <= self.index /\ self.index < Len(self.images))

\* C1: in every reachable state of the daemon (after Workspace construction,
\* after every reload_images_and_index and after every apply_index of the
\* scheduler loop), every workspace with a non-empty image list has
\* 0 <= index < len(images).
C1_PositionInRange == \A w \in WsNums : PositionInRange(ws[w])

\* awp_daemon.py has caught the exception of a reload that stopped in
\* sort_images: the workspace holds the new, shorter image list and the index
\* of the old one
C1_Witness ==
    /\ variant = "awp_daemon"
    /\ pc = "backoff"
    /\ Registered(ws_num)
    /\ ws[ws_num].images # <<>>
    /\ ws[ws_num].index >= Len(ws[ws_num].images)

\* C2: in random mode with at least two images pick_next_index returns an
\* index of the list that differs from the current position, for every
\* workspace and every position.
C2_RandomNoRepeat ==
    /\ \A w \in WsNums :
          (ws[w].mode = "random" /\ Len(ws[w].images) >= 2)
            => \A i \in pick_next_index(ws[w]) :
                  /\ 0 <= i /\ i < Len(ws[w].images)
                  /\ i # ws[w].index
    /\ (pc = "picked" /\ ws[ws_num].mode = "random" /\ Len(ws[ws_num].images) >= 2)
          => /\ 0 <= new_index /\ new_index < Len(ws[ws_num].images)
             /\ new_index # ws[ws_num].index

\* a random pick away from the last of three images
C2_Witness ==
    /\ pc = "picked"
    /\ ws[ws_num].mode = "random"
    /\ Len(ws[ws_num].images) = 3
    /\ ws[ws_num].index = 2
    /\ new_index = 0

\* the positions of k consecutive rotations (pick_next_index, then apply_index
\* storing the pick in self.index) on an unchanged image list
RECURSIVE Rotations(_, _)
Rotations(self, k) ==
    IF k = 0 THEN <<>>
    ELSE LET i == CHOOSE x \in pick_next_index(self) : TRUE
         IN <<i>> \o Rotations([self EXCEPT !.index = i], k - 1)

\* C3: in sequential mode a rotation moves the position from p to
\* (p + 1) mod n, n consecutive rotations return to the starting position, and
\* three images from position 0 give 1, 2, 0.
C3_SequentialWraparound ==
    /\ \A w \in WsNums :
          LET n == Len(ws[w].images)
          IN (ws[w].mode = "sequential" /\ n > 0)
               => /\ pick_next_index(ws[w]) = {(ws[w].index + 1) % n}
                  /\ Rotations(ws[w], n)[n] = ws[w].index
                  /\ (n = 3 /\ ws[w].index = 0) => Rotations(ws[w], n) = <<1, 2, 0>>
    /\ (pc = "picked" /\ ws[ws_num].mode = "sequential")
          => new_index = (ws[ws_num].index + 1) % Len(ws[ws_num].images)
    /\ (pc = "applied" /\ ws[ws_num].mode = "sequential")
          => /\ ws[ws_num].index = new_index
             /\ StoredIndex(stateFile, ws_num) = new_index

\* the rotation from the last of three images back to the first, applied
C3_Witness ==
    /\ pc = "applied"
    /\ ws[ws_num].mode = "sequential"
    /\ Len(ws[ws_num].images) = 3
    /\ ws[ws_num].index = 0
    /\ shown = <<ws_num, ws[ws_num].images[1]>>

\* C4: reload_images_and_index sets the position to the stored index v when
\* 0 <= v < len(images), and to 0 when v is out of range for the image count,
\* the key is absent or there are no images.
C4_ReloadClamp ==
    pc = "reloaded" =>
        LET m == load_state(stateFile)
            k == get_ws_key(ws_num)
            n == Len(ws[ws_num].images)
        IN ws[ws_num].index =
              IF k \in DOMAIN m /\ 0 <= m[k] /\ m[k] < n THEN m[k] ELSE 0

\* stored -1 with 3 images gives -1
C4_Witness ==
    /\ pc = "reloaded"
    /\ StoredIndex(stateFile, ws_num) = -1
    /\ Len(ws[ws_num].images) = 3
    /\ ws[ws_num].index = -1

SavePcs == {"save_open", "save_write", "save_replace"}
ApplyPcs == {"apply_load", "apply_backend", "apply_snapshot"} \cup SavePcs

\* C5: every step of save_state before the rename, a crash or a failed write
\* included, leaves the state file holding the previous complete document;
\* the rename makes it exactly the new document; it is never partial or empty.
C5_SaveAtomic ==
    /\ stateFile.kind \in {"absent", "doc"}
    /\ [][( /\ ((pc \in SavePcs /\ pc' # "apply_backend") => stateFile' = stateFile)
            /\ ((pc = "save_replace" /\ pc' = "apply_backend") => stateFile' = Doc(state))
            /\ stateFile'.kind \in {"absent", "doc"} )]_vars

\* the process was killed in the middle of the write and the previous
\* document is in place
C5_Witness ==
    /\ pc = "crashed"
    /\ tmpFile = Partial
    /\ stateFile.kind = "doc"
    /\ state # stateFile.doc

\* C6: during apply_index of workspace W every entry of the state file other
\* than W's own key stays present with the same value.
C6_OtherEntriesKept ==
    [][(pc \in ApplyPcs =>
          \A k \in DOMAIN load_state(stateFile) :
              (k # get_ws_key(ws_num) =>
                  /\ k \in DOMAIN load_state(stateFile')
                  /\ load_state(stateFile')[k] = load_state(stateFile)[k]))]_vars

\* apply_index has saved W's index next to another workspace's non-zero entry
C6_Witness ==
    /\ pc = "apply_backend"
    /\ stateFile = Doc(state)
    /\ \E w \in WsNums :
          /\ w # ws_num
          /\ get_ws_key(w) \in DOMAIN stateFile.doc
          /\ stateFile.doc[get_ws_key(w)] > 0

SwitchPcs == {"switch", "switch_after"}

\* C7: a completed switch to workspace W2 at time now leaves W2's
\* next_switch_time at now + W2.timing and records W2 as last_ws, and no step
\* of the switch changes another workspace's next_switch_time.
C7_SwitchResetsTimer ==
    [][( /\ ((pc = "switch_after" /\ pc' = "timer")
               => (/\ ws'[ws_num].next_switch_time = now + ws'[ws_num].timing
                   /\ last_ws' = ws_num))
         /\ ((pc \in SwitchPcs \/ (pc \in ApplyPcs /\ ret = "switch"))
               => (\A w \in WsNums :
                     (w # ws_num =>
                        ws'[w].next_switch_time = ws[w].next_switch_time))) )]_vars

\* a switch in the middle of an interval: the new workspace's timer is reset
\* to a value it did not have, the old workspace's timer is already in the past
C7_Witness ==
    /\ pc = "timer"
    /\ now > 0
    /\ last_ws = ws_num
    /\ ws[ws_num].next_switch_time = now + ws[ws_num].timing
    /\ \E w \in WsNums : w # ws_num /\ ws[w].next_switch_time < now

\* C8: a timer expiry whose reload finds no images performs no apply_index (the
\* state file, the temporary file and the backend are untouched, the tick
\* ends) and still sets next_switch_time to now + timing.
C8_EmptyTimerExpiry ==
    [][((/\ pc = "timer"
        /\ now >= ws[ws_num].next_switch_time
        /\ ws'[ws_num].images = <<>>)
          => /\ pc' = "sleep"
             /\ UNCHANGED <<stateFile, tmpFile, shown>>
             /\ ws'[ws_num].next_switch_time = now + ws'[ws_num].timing)]_vars

\* the folder became empty after a rotation: the stored index is still the
\* rotated one, the timer has advanced, no backend call was made
C8_Witness ==
    /\ pc = "sleep"
    /\ Registered(ws_num)
    /\ ws[ws_num].images = <<>>
    /\ ws[ws_num].next_switch_time = now + ws[ws_num].timing
    /\ StoredIndex(stateFile, ws_num) > 0
    /\ shown = NoCall

\* C9: no error raised inside a tick ends the daemon: the loop catches it and
\* goes on.
C9_ErrorsCaught == pc # "dead"

\* daemon.py has stopped on the exception of a backend call made after the
\* index was saved
C9_Witness ==
    /\ variant = "daemon"
    /\ pc = "dead"
    /\ stateFile = Doc(state)
    /\ ws[ws_num].images # <<>>

\* C10: on a tick whose workspace probe failed no workspace is treated as
\* active: last_ws, every position and next_switch_time, the state file and
\* the backend are untouched and the tick ends in the loop's sleep.
C10_ProbeFailureIdles ==
    [][(probe_failed' =>
          /\ pc' \in {"backoff", "sleep"}
          /\ last_ws' = last_ws
          /\ \A w \in WsNums :
                /\ ws'[w].index = ws[w].index
                /\ ws'[w].next_switch_time = ws[w].next_switch_time
          /\ UNCHANGED <<stateFile, tmpFile, shown>>)]_vars

\* daemon.py after a failed probe: workspace 0 was taken as the active one,
\* its index saved and its wallpaper set
C10_Witness ==
    /\ variant = "daemon"
    /\ probe_failed
    /\ ws_num = 0
    /\ stateFile = Doc(state)
    /\ shown # NoCall

\* the state file holds the value v under workspace w's key
Persisted(file, w, v) ==
    /\ get_ws_key(w) \in DOMAIN load_state(file)
    /\ load_state(file)[get_ws_key(w)] = v

\* C11: when apply_index reaches the set_wallpaper call, self.index and the
\* workspace's entry of the state file both hold new_index, and they still do
\* after that step, whether the backend call succeeds or raises.
C11_SavedBeforeBackend ==
    [][( /\ (pc' = "apply_backend"
               => (/\ ws'[ws_num'].index = new_index'
                   /\ Persisted(stateFile', ws_num', new_index')))
         /\ (pc = "apply_backend"
               => (/\ ws'[ws_num].index = new_index
                   /\ Persisted(stateFile', ws_num, new_index))) )]_vars

\* set_wallpaper raised in a sequential timer rotation over at least two
\* images (the index saved differs from the one stored before): the new index
\* is in the object and in the state file, no wallpaper was set in this tick
C11_Witness ==
    /\ pc \in {"backoff", "dead"}
    /\ Registered(ws_num)
    /\ ret = "timer"
    /\ ws[ws_num].mode = "sequential"
    /\ Len(ws[ws_num].images) >= 2
    /\ PyInRange(ws[ws_num].images, ws[ws_num].index)
    /\ shown = NoCall
    /\ state # EmptyMap
    /\ new_index > 0
    /\ ws[ws_num].index = new_index
    /\ Persisted(stateFile, ws_num, new_index)

\* C12: when building or writing the status snapshot fails, apply_index still
\* returns to the scheduler loop without an error, with self.index and the
\* state file at new_index and the set_wallpaper call made.
C12_SnapshotFailureTolerated ==
    [][(pc = "apply_snapshot"
          => (/\ pc' = AfterApply
              /\ ws'[ws_num].index = new_index
              /\ Persisted(stateFile', ws_num, new_index)
              /\ shown' = <<ws_num, PyIndex(ws[ws_num].images, new_index)>>))]_vars

\* daemon.py has stopped on the exception of the snapshot write: the index is
\* saved and the wallpaper set
C12_Witness ==
    /\ variant = "daemon"
    /\ pc = "dead"
    /\ ret = "switch"
    /\ Registered(ws_num)
    /\ PyInRange(ws[ws_num].images, new_index)
    /\ shown = <<ws_num, PyIndex(ws[ws_num].images, new_index)>>
    /\ Persisted(stateFile, ws_num, new_index)

\* the position a command finds persisted for workspace w with n images: the
\* stored value, or 0 when none is stored or it is past the end
PersistedPosition(file, w, n) ==
    LET m == load_state(file)
    IN IF get_ws_key(w) \in DOMAIN m /\ m[get_ws_key(w)] < n
       THEN m[get_ws_key(w)] ELSE 0

\* C13: a manual prev in random mode moves to the recorded _last value L
\* whenever 0 <= L < len(images), L = 0 included, and stays on the current
\* position when no _last is recorded or L is out of range.
C13_PrevRandomLast ==
    [][((NavPrev /\ cfg[nav'.ws_num].mode = "random")
          => LET w == nav'.ws_num
                 n == nav'.len_imgs
                 m == load_state(stateFile)
             IN Persisted(stateFile', w,
                    IF /\ LastKey(w) \in DOMAIN m
                       /\ 0 <= m[LastKey(w)]
                       /\ m[LastKey(w)] < n
                    THEN m[LastKey(w)]
                    ELSE PersistedPosition(stateFile, w, n)))]_vars

\* a prev in random mode has run on three images with _last = 0 recorded and
\* the position elsewhere: the position is still where it was
C13_Witness ==
    /\ nav.cmd = "prev"
    /\ cfg[nav.ws_num].mode = "random"
    /\ nav.len_imgs = 3
    /\ Persisted(stateFile, nav.ws_num, 2)
    /\ LastKey(nav.ws_num) \in DOMAIN load_state(stateFile)
    /\ load_state(stateFile)[LastKey(nav.ws_num)] = 2

\* C14: with the image set unchanged and no daemon rotation in between, a
\* manual next from persisted position p followed by a manual prev leaves
\* position p persisted again, for every p in [0, len(images)) and in random
\* and sequential mode.
C14_NextPrevUndo ==
    \A w \in WsNums, n \in 1 .. MaxFiles :
        \A p \in 0 .. (n - 1) :
            Persisted(stateFile, w, p)
              => \A afterNext \in NavNextFiles(stateFile, w, n) :
                    Persisted(NavPrevFile(afterNext, w, n), w, p)

\* a prev has run in random mode on two images and left the position on 1 with
\* _last = 1: where "next" had moved it from position 0
C14_Witness ==
    /\ nav.cmd = "prev"
    /\ cfg[nav.ws_num].mode = "random"
    /\ nav.len_imgs = 2
    /\ Persisted(stateFile, nav.ws_num, 1)
    /\ LastKey(nav.ws_num) \in DOMAIN load_state(stateFile)
    /\ load_state(stateFile)[LastKey(nav.ws_num)] = 1

\* C15: load_state never raises and always returns a map, the empty map for an
\* absent file and for every malformed content (empty, cut off, invalid JSON,
\* valid JSON that is not an object), so that every Workspace is constructed,
\* and with position 0 when the file is absent or malformed.
C15_LoadAlwaysMap ==
    /\ IsObject(load_state(stateFile))
    /\ (stateFile.kind # "doc" \/ ~IsObject(stateFile.doc))
          => load_state(stateFile) = EmptyMap
    /\ pc = "constructed"
          => \A w \in WsNums :
                /\ ws[w] # NoWorkspace
                /\ (stateFile.kind # "doc" \/ ~IsObject(stateFile.doc))
                      => ws[w].index = 0

\* main() has gone through its loop on a state file holding a JSON array: no
\* workspace was registered
C15_Witness ==
    /\ pc = "constructed"
    /\ stateFile = Doc(JsonArray)
    /\ state = JsonArray
    /\ \A w \in WsNums : ws[w] = NoWorkspace

\* the members of a sequence
Range(s) == { s[i] : i \in 1 .. Len(s) }

\* C16: load_images returns exactly the direct entries of the folder whose
\* extension is .jpg, .jpeg or .png in any letter case, each once, and the
\* empty sequence when the folder is missing or is not a directory.
C16_LoadImagesFilter ==
    (pc = "returned" /\ args.fn = "load_images")
      => IF args.folder.is_dir
         THEN /\ Range(result) =
                   { e \in args.folder.entries :
                       Lower(ExtOf(e)) \in {"jpg", "jpeg", "png"} }
              /\ \A i, j \in 1 .. Len(result) : i # j => result[i] # result[j]
         ELSE result = <<>>

\* load_images has returned from a directory holding 0.jpeg, 1.jpg and 2.png
C16_Witness ==
    /\ pc = "returned"
    /\ args.fn = "load_images"
    /\ args.folder = Directory({0, 1, 2})
    /\ result = <<1, 2>>

\* C17: for every order key other than name_az, name_za, name_old and
\* name_new, sort_images returns what it returns for name_az: the images in
\* ascending order of their case-folded names.
C17_UnknownOrderIsNameAz ==
    (/\ pc = "returned"
     /\ args.fn = "sort_images"
     /\ args.order_key \notin {"name_az", "name_za", "name_old", "name_new"})
      => /\ result = sort_images(args.images, "name_az")
         /\ \A i, j \in 1 .. Len(result) :
               i < j => NameKey[result[i]] <= NameKey[result[j]]

\* sort_images has returned for an unknown order key on the list load_images
\* gives for 1.jpg, 2.png, 3.jpg
C17_Witness ==
    /\ pc = "returned"
    /\ args.fn = "sort_images"
    /\ args.order_key = "shuffle"
    /\ args.images = load_images({1, 2, 3})
    /\ result = <<1, 3, 2>>

Reverse(s) == [i \in 1 .. Len(s) |-> s[Len(s) + 1 - i]]

\* C18: on every non-empty image sequence, two names equal after case folding
\* included, sort_images with name_az and with name_za is idempotent, and the
\* name_za result is the reverse of the name_az result for the same input.
C18_NameSortsReverse ==
    (/\ pc = "returned"
     /\ args.fn = "sort_images"
     /\ args.order_key \in {"name_az", "name_za"}
     /\ args.images # <<>>)
      => /\ sort_images(result, args.order_key) = result
         /\ sort_images(args.images, "name_za")
              = Reverse(sort_images(args.images, "name_az"))

\* sort_images has returned for name_za on 1.jpg followed by 1.JPG
C18_Witness ==
    /\ pc = "returned"
    /\ args.fn = "sort_images"
    /\ args.order_key = "name_za"
    /\ args.images = <<1, -1>>
    /\ result = <<1, -1>>

\* C19: the daemon is the only writer of the state file: every step that
\* changes the file is the daemon's apply_index, never a navigation command.
C19_DaemonOnlyWriter ==
    [][(stateFile' # stateFile) => (WsApply \/ WsSwitchEmpty)]_vars

\* a next command has run and the state file holds the _last entry it wrote
C19_Witness ==
    /\ nav.cmd = "next"
    /\ LastKey(nav.ws_num) \in DOMAIN load_state(stateFile)

\* C20: started from a store whose values are all non-negative, after any
\* sequence of daemon switches and rotations and of manual next, prev and
\* delete commands every value in the store, ws<N> and ws<N>_last alike, is a
\* non-negative integer.
C20_StoreNonNegative ==
    \A k \in DOMAIN load_state(stateFile) : load_state(stateFile)[k] >= 0

\* the store holds what the daemon's apply_index and a prev command in random
\* mode on two images have written: position 1 and _last = 0
C20_Witness ==
    /\ pc = "applied"
    /\ nav.cmd = "prev"
    /\ nav.ws_num = ws_num
    /\ nav.len_imgs = 2
    /\ cfg[ws_num].mode = "random"
    /\ LastKey(ws_num) \in DOMAIN load_state(stateFile)
    /\ load_state(stateFile)[LastKey(ws_num)] = 0
    /\ Persisted(stateFile, ws_num, 1)

\* C21: the interval of a workspace is n, 60 n and 3600 n seconds for the
\* timing strings <n>s, <n>m and <n>h with n a positive integer, 60 n for any
\* other trailing character, and 60 seconds when the string is empty or its
\* number part is not an integer; the unit character is taken as written.
C21_IntervalAsWritten ==
    (pc = "returned" /\ args.fn = "parse_timing") =>
        LET s == args.timing_str
            number == PyInt(SubSeq(s, 1, Len(s) - 1))
            u == s[Len(s)]
        IN /\ Len(result) = 1
           /\ (s = <<>> \/ ~number.ok) => result[1] = DefaultTiming
           /\ (s # <<>> /\ number.ok /\ number.value > 0) =>
                 result[1] = number.value *
                     (IF u = "s" THEN 1 ELSE IF u = "h" THEN 3600 ELSE 60)

\* C21 as the code has it: the same with the unit character lower-cased
\* first, so that <n>H is 3600 n seconds like <n>h.
C21_IntervalOfTimingString ==
    (pc = "returned" /\ args.fn = "parse_timing") =>
        LET s == args.timing_str
            number == PyInt(SubSeq(s, 1, Len(s) - 1))
            u == s[Len(s)]
        IN /\ Len(result) = 1
           /\ (s = <<>> \/ ~number.ok) => result[1] = DefaultTiming
           /\ (s # <<>> /\ number.ok /\ number.value > 0) =>
                 result[1] = number.value *
                     (IF u = "s" THEN 1 ELSE IF u \in {"h", "H"} THEN 3600 ELSE 60)

\* a two-minute string with an unknown unit has been parsed
C21_Witness ==
    pc = "returned" /\ args.fn = "parse_timing" /\ args.timing_str = <<"2", "x">> /\ result = <<120>>

\* C22: after the configuration file was edited, the timing, mode and order
\* that the reload of the next switch event derives for the workspace switched
\* to are the ones on disk at that moment, not the ones loaded before the edit.
C22_SwitchReadsDisk ==
    [][(LoopSwitch /\ ws_num # last_ws) =>
          /\ ws'[ws_num].timing = TimingOf(cfg_disk[ws_num].timing)
          /\ ws'[ws_num].mode = cfg_disk[ws_num].mode
          /\ ws'[ws_num].order = cfg_disk[ws_num].order]_vars

\* a switch has completed, config.reload() included, and the workspace holds
\* a mode that the file did not hold when the switch ran
C22_Witness ==
    /\ pc = "timer"
    /\ ret = "switch"
    /\ cfg = cfg_disk
    /\ ws[ws_num].mode # cfg_disk[ws_num].mode

\* C23: a switch transition does not advance the rotation: when the stored
\* position p of the workspace switched to is within 0 .. len(images) - 1 after
\* the reload, apply_index is called with p, and when it has returned the
\* object's index and the state file's entry are p and set_wallpaper was
\* called with images[p].
C23_SwitchKeepsPosition ==
    [][ /\ (pc = "switch" /\ pc' = "apply_load"
             /\ StoredIndex(stateFile, ws_num) \in 0 .. (Len(ws'[ws_num].images) - 1))
            => (/\ new_index' = StoredIndex(stateFile, ws_num)
                /\ ws'[ws_num].index = new_index')
        /\ (ret = "switch" /\ ret' = "switch") => new_index' = new_index
        /\ (pc' = "switch_after" /\ ws'[ws_num'].images # <<>>)
            => (/\ ret' = "switch"
                /\ ws'[ws_num'].index = new_index'
                /\ Persisted(stateFile', ws_num', new_index')
                /\ shown' = <<ws_num', PyIndex(ws'[ws_num'].images, new_index')>>)
      ]_vars

\* a switch back to a workspace that an earlier rotation left on its second
\* image has re-applied that image
C23_Witness ==
    /\ pc = "switch_after"
    /\ new_index = 1
    /\ ws[ws_num].index = 1
    /\ Persisted(stateFile, ws_num, 1)
    /\ shown = <<ws_num, PyIndex(ws[ws_num].images, 1)>>

\* C24: a switch onto a workspace whose folder yields no images raises no
\* error and makes no backend call: once apply_index has saved the index, it
\* returns to the switch branch, which then records the workspace as last_ws.
C24_EmptySwitchCompletes ==
    [][ /\ (pc = "apply_backend" /\ ret = "switch" /\ ws[ws_num].images = <<>>)
            => (pc' = "switch_after" /\ shown' = NoCall)
        /\ (pc = "switch_after" /\ pc' = "timer") => last_ws' = ws_num
      ]_vars

\* daemon.py has stopped in the switch onto an empty folder, after saving the
\* index and before last_ws was assigned
C24_Witness ==
    /\ pc = "dead"
    /\ variant = "daemon"
    /\ ret = "switch"
    /\ ws[ws_num].images = <<>>
    /\ stateFile = Doc(state)
    /\ tmpFile = Absent
    /\ shown = NoCall
    /\ last_ws # ws_num

\* C25: when an error is raised while a timer expiry is handled (in the
\* reload, in the state write or in the backend call), the workspace's
\* next_switch_time has still been set to now + timing.
C25_TimerAdvancesOnError ==
    [][((pc = "timer" \/ ret = "timer") /\ pc' \in {"backoff", "dead"})
          => ws'[ws_num].next_switch_time = now + ws'[ws_num].timing]_vars

\* awp_daemon.py is in its except branch after set_wallpaper raised in a timer
\* expiry: the rotated index is saved and the timer is still expired
C25_Witness ==
    /\ pc = "backoff"
    /\ ret = "timer"
    /\ Persisted(stateFile, ws_num, new_index)
    /\ ws[ws_num].index = new_index
    /\ now >= ws[ws_num].next_switch_time

\* C26: when the save of a navigation command overlaps the daemon's save, a
\* reader of the state path never finds a partial or an empty document there.
C26_ReaderSeesWholeDocument == stateFile.kind \in {"absent", "doc"}

\* the daemon has renamed the temporary file that the command had just
\* truncated and still has open: the state path holds an empty file
C26_Witness ==
    /\ stateFile = Empty
    /\ saver["daemon"].pc = "done"
    /\ saver["nav"].pc = "write"
    /\ saver["nav"].handle = "state"

\* C27: the daemon's save loses no update: every entry that is in the state
\* file when the daemon renames its document over it, written by a command
\* since the daemon's load or not, is in the file afterwards with the value it
\* had, except the one index entry that the daemon set.
C27_NoLostUpdate ==
    [][(saver["daemon"].pc = "replace" /\ saver'["daemon"].pc = "done")
          => \A k \in DOMAIN load_state(stateFile) :
                \/ /\ k \in DOMAIN load_state(stateFile')
                   /\ load_state(stateFile')[k] = load_state(stateFile)[k]
                \/ /\ k.suffix = ""
                   /\ stateFile' = Doc(DictSet(load_state(stateFile), k,
                                               saver["daemon"].state[k]))]_vars

\* a command ran from its load to its rename while the daemon was between
\* its load and its save, and the _last entry it wrote is gone again
C27_Witness ==
    /\ saver["daemon"].pc = "done"
    /\ saver["nav"].pc = "done"
    /\ stateFile = Doc(saver["daemon"].state)
    /\ \E w \in WsNums :
          /\ LastKey(w) \in DOMAIN saver["nav"].state
          /\ LastKey(w) \notin DOMAIN load_state(stateFile)

\* C28: a step of a tick changes the Workspace object (images, index,
\* next_switch_time) and the state file's entry of no workspace but the one
\* the probe returned, and while the probe's result has no Workspace object
\* the step changes no Workspace object, not the state file and not last_ws.
C28_TickFrame ==
    [][ /\ (ws' # ws) => \A w \in WsNums \ {ws_num} : ws'[w] = ws[w]
        /\ (stateFile' # stateFile) =>
              \A w \in WsNums \ {ws_num} :
                 /\ (get_ws_key(w) \in DOMAIN load_state(stateFile'))
                       = (get_ws_key(w) \in DOMAIN load_state(stateFile))
                 /\ StoredIndex(stateFile', w) = StoredIndex(stateFile, w)
        /\ ~Registered(ws_num) => UNCHANGED <<ws, stateFile, tmpFile, last_ws>>
      ]_vars

\* a timer expiry has rotated the active workspace while the state file holds
\* an index of another workspace
C28_Witness ==
    /\ pc = "timer_after"
    /\ ws[ws_num].index = new_index
    /\ new_index > 0
    /\ Persisted(stateFile, ws_num, new_index)
    /\ \E w \in WsNums \ {ws_num} : get_ws_key(w) \in DOMAIN load_state(stateFile)

\* C29: while a workspace with two or more images stays active and nothing
\* raises, the tick that finds now >= next_switch_time moves its index and sets
\* next_switch_time to that tick's now + timing; no other step than a switch
\* or an expiry of that workspace changes its next_switch_time; and a
\* workspace that stays active is rotated in the end: once it is last_ws with
\* its next_switch_time within the clock's range, it is later rotated, or
\* found with fewer than two images at its expiry, or left by a switch.
C29_DueTimerRotates ==
    /\ [][ /\ (pc = "timer" /\ pc' = "sleep" /\ now >= ws[ws_num].next_switch_time)
               => /\ ws'[ws_num].next_switch_time = now + ws'[ws_num].timing
                  /\ ret' = "timer"
                  /\ Len(ws'[ws_num].images) >= 2
                        => /\ ws'[ws_num].index # ws[ws_num].index
                           /\ shown' = <<ws_num, PyIndex(ws'[ws_num].images,
                                                          ws'[ws_num].index)>>
           /\ \A w \in WsNums :
                 ws'[w].next_switch_time # ws[w].next_switch_time
                    => /\ w = ws_num
                       /\ \/ pc = "switch" /\ ws_num # last_ws
                          \/ pc = "timer" /\ now >= ws[w].next_switch_time
         ]_vars
    /\ \A w \in WsNums :
          (last_ws = w /\ ws[w].next_switch_time <= MaxTime)
             ~> \/ last_ws # w
                \/ /\ pc = "sleep"
                   /\ ret = "timer"
                   /\ ws_num = w
                   /\ \/ Len(ws[w].images) < 2
                      \/ shown = <<w, PyIndex(ws[w].images, ws[w].index)>>

\* the expiry of a workspace that stayed active since its switch has rotated
\* it to its second image
C29_Witness ==
    /\ pc = "sleep"
    /\ ret = "timer"
    /\ last_ws = ws_num
    /\ Len(ws[ws_num].images) >= 2
    /\ ws[ws_num].index = 1
    /\ shown = <<ws_num, PyIndex(ws[ws_num].images, 1)>>
    /\ ws[ws_num].next_switch_time = now + ws[ws_num].timing

\* C30: whatever timing string the configuration holds, zero and negative
\* numbers included, the interval of every workspace is at least one second,
\* so the switch branch leaves next_switch_time after the tick's now, and the
\* timer branch does not run apply_index in a tick in which the switch branch
\* has run it.
C30_IntervalAtLeastOneSecond ==
    /\ \A w \in WsNums : ws[w].timing >= UnitsPerSecond
    /\ (pc = "timer" /\ ret = "switch") => ws[ws_num].next_switch_time > now
    /\ [][(ret = "switch") => (ret' # "timer")]_vars

\* with timing = -1s the timer branch has rotated the workspace and has left
\* its timer a second in the past
C30_Witness ==
    /\ pc = "sleep"
    /\ ret = "timer"
    /\ ws_num = 0
    /\ cfg[0].timing = TimingStr(0 - 1, "s")
    /\ ws[0].timing = (0 - 1) * UnitsPerSecond
    /\ ws[0].next_switch_time = now - UnitsPerSecond
    /\ shown # NoCall

====
